---- MODULE Spec2Model ----
(***************************************************************************)
(* cloudflare-ddns (src/src/main.rs): one run of the dynamic DNS           *)
(* synchronizer.  main() is a straight-line pipeline; the model has one    *)
(* action per statement of main() that talks to the outside (argument      *)
(* parsing, the address-echo GET, name resolution, the comparison, the     *)
(* environment read, the two provider GETs with their `find`, the PATCH    *)
(* with the final report).  What the outside answers is drawn from small   *)
(* sets inside each action.                                                *)
(*                                                                         *)
(* Text is modelled as a sequence of one-character strings so that the     *)
(* parsing and formatting of addresses are computed, not assumed.          *)
(***************************************************************************)
EXTENDS Integers, Sequences, FiniteSets, TLC

(***************************************************************************)
(* Text helpers                                                            *)
(***************************************************************************)
DecDigits == <<"0", "1", "2", "3", "4", "5", "6", "7", "8", "9">>
HexDigits == <<"0", "1", "2", "3", "4", "5", "6", "7", "8", "9",
               "a", "b", "c", "d", "e", "f">>

Range(s) == {s[i] : i \in DOMAIN s}

\* value of a digit character in the digit table `tab` (0-based)
DigitVal(tab, c) == (CHOOSE i \in DOMAIN tab : tab[i] = c) - 1

RECURSIVE NumVal(_, _, _)
NumVal(tab, radix, s) ==
    IF s = <<>> THEN 0
    ELSE NumVal(tab, radix, SubSeq(s, 1, Len(s) - 1)) * radix
         + DigitVal(tab, s[Len(s)])

\* s split at every occurrence of the character sep (always >= 1 part)
RECURSIVE Split(_, _)
Split(s, sep) ==
    IF \A i \in DOMAIN s : s[i] # sep THEN <<s>>
    ELSE LET i == CHOOSE k \in DOMAIN s :
                     s[k] = sep /\ \A j \in 1..(k - 1) : s[j] # sep
         IN  <<SubSeq(s, 1, i - 1)>> \o Split(SubSeq(s, i + 1, Len(s)), sep)

RECURSIVE Flatten(_, _)
Flatten(parts, sep) ==
    IF parts = <<>> THEN <<>>
    ELSE IF Len(parts) = 1 THEN parts[1]
    ELSE parts[1] \o <<sep>> \o Flatten(Tail(parts), sep)

RECURSIVE NumStr(_, _, _)
NumStr(tab, radix, n) ==
    IF n < radix THEN <<tab[n + 1]>>
    ELSE NumStr(tab, radix, n \div radix) \o <<tab[(n % radix) + 1]>>

(***************************************************************************)
(* std::net::IpAddr: `str::parse::<IpAddr>()` (main.rs:87) and             *)
(* `IpAddr::to_string()` (main.rs:68, 74)                                  *)
(***************************************************************************)
NoIp == [fam |-> "none"]
V4(o) == [fam |-> "V4", octets |-> o]
V6(g) == [fam |-> "V6", groups |-> g]

\* one decimal octet: 1..3 digits, no zero prefix, value fits u8
IsOctet(p) ==
    /\ Len(p) \in 1..3
    /\ Range(p) \subseteq Range(DecDigits)
    /\ (Len(p) > 1 => p[1] # "0")
    /\ NumVal(DecDigits, 10, p) <= 255

ParseV4(s) ==
    LET parts == Split(s, ".")
    IN  IF Len(parts) = 4 /\ \A i \in 1..4 : IsOctet(parts[i])
        THEN V4([i \in 1..4 |-> NumVal(DecDigits, 10, parts[i])])
        ELSE NoIp

\* one hexadecimal group: 1..4 hex digits
IsGroup(p) == Len(p) \in 1..4 /\ Range(p) \subseteq Range(HexDigits)

\* the groups of a colon-separated run; the last part may be a dotted quad
\* (two groups) when allowV4; <<-1>> when some part is malformed
GroupsOf(s, allowV4) ==
    IF s = <<>> THEN <<>>
    ELSE LET parts == Split(s, ":")
             n     == Len(parts)
             last  == ParseV4(parts[n])
             lastIsV4 == allowV4 /\ last.fam = "V4"
             hexN  == IF lastIsV4 THEN n - 1 ELSE n
         IN  IF \A i \in 1..hexN : IsGroup(parts[i])
             THEN [i \in 1..hexN |-> NumVal(HexDigits, 16, parts[i])]
                  \o (IF lastIsV4
                      THEN <<last.octets[1] * 256 + last.octets[2],
                             last.octets[3] * 256 + last.octets[4]>>
                      ELSE <<>>)
             ELSE <<-1>>

ParseV6(s) ==
    LET dbl == {i \in 1..(Len(s) - 1) : s[i] = ":" /\ s[i + 1] = ":"}
    IN  IF dbl = {}
        THEN LET g == GroupsOf(s, TRUE)
             IN  IF Len(g) = 8 /\ -1 \notin Range(g) THEN V6(g) ELSE NoIp
        ELSE LET i  == CHOOSE k \in dbl : \A j \in dbl : k <= j
                 hd == GroupsOf(SubSeq(s, 1, i - 1), FALSE)
                 tl == GroupsOf(SubSeq(s, i + 2, Len(s)), TRUE)
             IN  IF /\ -1 \notin Range(hd) /\ -1 \notin Range(tl)
                    /\ Len(hd) + Len(tl) <= 7
                 THEN V6(hd \o [k \in 1..(8 - Len(hd) - Len(tl)) |-> 0] \o tl)
                 ELSE NoIp

\* IpAddr::from_str: an IPv4 address, or else an IPv6 address
ParseIp(s) == IF ParseV4(s).fam = "V4" THEN ParseV4(s) ELSE ParseV6(s)

V4ToString(o) == Flatten([i \in 1..4 |-> NumStr(DecDigits, 10, o[i])], ".")

\* longest run of zero groups of length > 1 (first one wins): <<start, len>>
ZeroRun(g) ==
    LET runs == {r \in (1..8) \X (2..8) :
                    /\ r[1] + r[2] - 1 <= 8
                    /\ \A k \in r[1]..(r[1] + r[2] - 1) : g[k] = 0}
    IN  IF runs = {} THEN <<0, 0>>
        ELSE CHOOSE r \in runs :
                \A q \in runs : q[2] < r[2] \/ (q[2] = r[2] /\ r[1] <= q[1])

V6ToString(g) ==
    LET hex(a, b) == Flatten([k \in 1..(b - a + 1) |->
                                 NumStr(HexDigits, 16, g[a + k - 1])], ":")
        z == ZeroRun(g)
    IN  IF \A k \in 1..5 : g[k] = 0 /\ g[6] = 65535
        THEN <<":", ":", "f", "f", "f", "f", ":">>
             \o V4ToString(<<g[7] \div 256, g[7] % 256, g[8] \div 256, g[8] % 256>>)
        ELSE IF z[2] = 0 THEN hex(1, 8)
        ELSE hex(1, z[1] - 1) \o <<":", ":">> \o hex(z[1] + z[2], 8)

IpToString(ip) ==
    IF ip.fam = "V4" THEN V4ToString(ip.octets) ELSE V6ToString(ip.groups)

(***************************************************************************)
(* Bounds of the model and the values the outside world is drawn from      *)
(***************************************************************************)
MaxArgs    == 2   \* positional arguments on the command line
MaxAddrs   == 2   \* socket addresses the resolver returns
MaxZones   == 2   \* zones in the provider's answer
MaxRecords == 2   \* records in the provider's answer

Domains == {"example.com", "Example.com"}

\* bodies the address-echo service may answer with
EchoBodies ==
    { <<"1", ".", "2", ".", "3", ".", "4">>,
      <<"5", ".", "6", ".", "7", ".", "8">>,
      <<"0", "1", ".", "2", ".", "3", ".", "4">>,
      <<"2", "5", "6", ".", "2", ".", "3", ".", "4">>,
      <<"1", ".", "2", ".", "3">>,
      <<"1", ".", "2", ".", "3", ".", "4", "\n">>,
      <<>>,
      <<":", ":", "1">>,
      <<"0", ":", "0", ":", "0", ":", "0", ":", "0", ":", "0", ":", "0", ":", "1">> }

EchoResponses ==
    {[kind |-> "transport", body |-> <<>>], [kind |-> "io", body |-> <<>>]}
    \cup {[kind |-> "ok", body |-> b] : b \in EchoBodies}

\* addresses the system resolver may return for "<domain>:80"
DnsAddrs == { V4(<<1, 2, 3, 4>>), V4(<<5, 6, 7, 8>>),
              V6(<<0, 0, 0, 0, 0, 0, 0, 1>>) }

SeqsUpTo(S, n) == UNION {[1..k -> S] : k \in 0..n}

Argvs == SeqsUpTo(Domains, MaxArgs)

ResolverResponses ==
    {[kind |-> "io", addrs |-> <<>>]}
    \cup {[kind |-> "ok", addrs |-> a] : a \in SeqsUpTo(DnsAddrs, MaxAddrs)}

\* struct Zone (main.rs:27-31)
ZoneValues ==
    [id : {"z1", "z2"}, name : {"example.com", "Example.com", "example.com.au"}]
NoZone == [id |-> "", name |-> ""]

\* struct DnsRecord (main.rs:33-41)
OldContent == <<"9", ".", "9", ".", "9", ".", "9">>
RecordValues ==
    { [id |-> "r1", zone_id |-> "z1", name |-> "example.com", type |-> "A",
       content |-> OldContent, ttl |-> 300],
      [id |-> "r2", zone_id |-> "z2", name |-> "example.com", type |-> "A",
       content |-> OldContent, ttl |-> 1],
      [id |-> "r3", zone_id |-> "z1", name |-> "example.com", type |-> "CNAME",
       content |-> OldContent, ttl |-> 300],
      [id |-> "r4", zone_id |-> "z1", name |-> "Example.com", type |-> "A",
       content |-> OldContent, ttl |-> 60],
      [id |-> "r5", zone_id |-> "z2", name |-> "www.example.com", type |-> "A",
       content |-> OldContent, ttl |-> 300] }
NoRecord == [id |-> "", zone_id |-> "", name |-> "", type |-> "",
             content |-> <<>>, ttl |-> 0]

\* what a provider GET can come back with: ureq `call()` fails (transport
\* error or HTTP status >= 400), `into_json()` fails, or a decoded list
ListResponses(S, n) ==
    {[kind |-> "transport", result |-> <<>>], [kind |-> "malformed", result |-> <<>>]}
    \cup {[kind |-> "ok", result |-> l] : l \in SeqsUpTo(S, n)}

NoResponse == [kind |-> "none", result |-> <<>>]

\* what the PATCH can come back with, and whether the provider applied it:
\* a decoded envelope reports what the provider did; when the request never
\* arrived or was rejected nothing is applied; when the answer is lost or
\* undecodable after the request was sent, either may be the case
PatchOutcomes ==
    { [kind |-> "success_true",  applied |-> TRUE],
      [kind |-> "success_false", applied |-> FALSE],
      [kind |-> "status",        applied |-> FALSE],
      [kind |-> "transport",     applied |-> FALSE],
      [kind |-> "transport",     applied |-> TRUE],
      [kind |-> "malformed",     applied |-> FALSE],
      [kind |-> "malformed",     applied |-> TRUE] }

(***************************************************************************)
(* State of one run                                                        *)
(***************************************************************************)
VARIABLES
    pc,             \* the statement of main() to execute next
    argv,           \* the command line's positional arguments
    env_api_key,    \* CLOUDFLARE_API_KEY in the environment ("" = unset)
    domain,         \* main.rs:45
    current_ip,     \* main.rs:46
    dns_ip,         \* main.rs:47
    api_key,        \* main.rs:56
    zone_id,        \* main.rs:58
    dns_record,     \* main.rs:64
    echo,           \* the address-echo service's answer
    zones,          \* what get_zones came back with, until the Vec is dropped
    records,        \* what get_dns_records came back with
    patch_response, \* what came back from the PATCH
    remote,         \* mutations the provider has applied
    calls,          \* network requests issued so far, in order
    steps,          \* <<step, succeeded>> of every statement executed so far
    stdout,         \* lines printed
    result,         \* "running", or how the process ended
    err             \* the anyhow error chain main() returned, outermost first

vars == <<pc, argv, env_api_key, domain, current_ip, dns_ip, api_key, zone_id,
          dns_record, echo, zones, records, patch_response, remote, calls,
          steps, stdout, result, err>>

ExitCode(r) ==
    CASE r = "Ok" -> 0 [] r = "Err" -> 1 [] r = "usage" -> 2 [] r = "panic" -> 101

MsgMatch   == <<"IPv4 Address matches. Exiting.">>
MsgNoMatch == <<"IPv4 Address does not match. Updating Cloudflare DNS records.">>
MsgUpdated(old, new) == <<"Updated DNS Record from", old, "to", new>>

Request(method, url, auth, body) ==
    [method |-> method, url |-> url, auth |-> auth, body |-> body]

Init ==
    /\ pc = "parse_args"
    /\ argv \in Argvs
    /\ env_api_key \in {"", "token"}
    /\ domain = ""
    /\ current_ip = NoIp
    /\ dns_ip = NoIp
    /\ api_key = ""
    /\ zone_id = ""
    /\ dns_record = NoRecord
    /\ echo = [kind |-> "none", body |-> <<>>]
    /\ zones = NoResponse
    /\ records = NoResponse
    /\ patch_response = "none"
    /\ remote = <<>>
    /\ calls = <<>>
    /\ steps = <<>>
    /\ stdout = <<>>
    /\ result = "running"
    /\ err = <<>>

(***************************************************************************)
(* Pure pieces of main()                                                   *)
(***************************************************************************)
\* variant: the comparison inverted
AddressesDiffer(a, b) == a # b

\* `current_ip == dns_ip` (main.rs:49)
AddressesMatch(a, b) == a = b

\* variant: the last matching zone instead of the first
RECURSIVE FindZoneLast(_, _)
FindZoneLast(zs, d) ==
    IF zs = <<>> THEN NoZone
    ELSE IF zs[Len(zs)].name = d THEN zs[Len(zs)]
    ELSE FindZoneLast(SubSeq(zs, 1, Len(zs) - 1), d)

\* `.into_iter().find(|zone| zone.name == domain)` (main.rs:59-60)
RECURSIVE FindZone(_, _)
FindZone(zs, d) ==
    IF zs = <<>> THEN NoZone
    ELSE IF Head(zs).name = d THEN Head(zs)
    ELSE FindZone(Tail(zs), d)

\* variant: the record type is not looked at
RECURSIVE FindRecordAnyType(_, _)
FindRecordAnyType(rs, d) ==
    IF rs = <<>> THEN NoRecord
    ELSE IF Head(rs).name = d THEN Head(rs)
    ELSE FindRecordAnyType(Tail(rs), d)

\* `.find(|record| record.r#type == "A" && record.name == domain)` (main.rs:65-66)
RECURSIVE FindRecord(_, _)
FindRecord(rs, d) ==
    IF rs = <<>> THEN NoRecord
    ELSE IF Head(rs).type = "A" /\ Head(rs).name = d THEN Head(rs)
    ELSE FindRecord(Tail(rs), d)

\* `dns_record.content = current_ip.to_string()` (main.rs:68)
WithContent(rec, ip) == [rec EXCEPT !.content = IpToString(ip)]

\* variant: the URL built from main()'s zone_id instead of the record's
PatchUrlFromZoneLookup(rec) == <<"zones", zone_id, "dns_records", rec.id>>

\* the URL patch_dns_record() builds (main.rs:140-143)
PatchUrl(rec) == <<"zones", rec.zone_id, "dns_records", rec.id>>

\* variant: an unset variable read as the empty string
EnvVarOrDefault(v) == TRUE

\* `env::var("CLOUDFLARE_API_KEY")` (main.rs:56): Err when unset
EnvVarIsOk(v) == v # ""

\* variant: the report is printed whatever the envelope says
ReportAlways(kind) == TRUE

\* variant: the test of `outcome` inverted
ReportOnFailure(kind) == kind # "success_true"

\* `if outcome { println!(...) }` (main.rs:73-75)
ShouldReport(kind) == kind = "success_true"

StepOrder == <<"public_ip", "dns_ip", "compare", "api_key", "get_zones",
               "get_dns_records", "patch">>

\* a statement completed and main() goes on to the statement `next`
Proceed(step, next) ==
    /\ pc' = next
    /\ steps' = Append(steps, <<step, TRUE>>)
    /\ UNCHANGED <<result, err>>

\* variant: the error is recorded and main() goes on to the next statement
FailAndContinue(step, chain) ==
    /\ pc' = LET i == CHOOSE k \in DOMAIN StepOrder : StepOrder[k] = step
             IN  IF i < Len(StepOrder) THEN StepOrder[i + 1] ELSE "done"
    /\ steps' = Append(steps, <<step, FALSE>>)
    /\ result' = "Err"
    /\ err' = chain

\* `?` on an Err: main() returns it (main.rs:46-72)
Fail(step, chain) ==
    /\ pc' = "done"
    /\ steps' = Append(steps, <<step, FALSE>>)
    /\ result' = "Err"
    /\ err' = chain

\* main() returns Ok(()) (main.rs:51, 77)
Finish(step) ==
    /\ pc' = "done"
    /\ steps' = Append(steps, <<step, TRUE>>)
    /\ result' = "Ok"
    /\ UNCHANGED err

(***************************************************************************)
(* The statements of main()                                                *)
(***************************************************************************)
\* Cli::parse(): exactly one positional argument, else clap's usage error
ParseArgs ==
    /\ pc = "parse_args"
    /\ IF Len(argv) = 1
       THEN /\ domain' = argv[1]
            /\ pc' = "public_ip"
            /\ UNCHANGED result
       ELSE /\ pc' = "done"
            /\ result' = "usage"
            /\ UNCHANGED domain
    /\ UNCHANGED <<argv, env_api_key, current_ip, dns_ip, api_key, zone_id,
                   dns_record, echo, zones, records, patch_response, remote,
                   calls, steps, stdout, err>>

\* public_ip().context("Getting current public IPv4 Address")?
PublicIp ==
    /\ pc = "public_ip"
    /\ \E resp \in EchoResponses :
         LET parsed == IF resp.kind = "ok" THEN ParseIp(resp.body) ELSE NoIp
         IN  /\ echo' = resp
             /\ calls' = Append(calls,
                    Request("GET", <<"https://api.ipify.org">>, "", NoRecord))
             /\ IF resp.kind # "ok"
                THEN /\ Fail("public_ip",
                             <<"Getting current public IPv4 Address", "ureq::Error">>)
                     /\ UNCHANGED current_ip
                ELSE IF parsed = NoIp
                THEN \* `.parse().unwrap()` panics (main.rs:87-88)
                     /\ pc' = "done"
                     /\ steps' = Append(steps, <<"public_ip", FALSE>>)
                     /\ result' = "panic"
                     /\ UNCHANGED <<current_ip, err>>
                ELSE /\ current_ip' = parsed
                     /\ Proceed("public_ip", "dns_ip")
    /\ UNCHANGED <<argv, env_api_key, domain, dns_ip, api_key, zone_id,
                   dns_record, zones, records, patch_response, remote, stdout>>

\* dns_ip(domain).context("Getting IPv4 Address Associated With Domain")?
DnsIp ==
    /\ pc = "dns_ip"
    /\ \E resp \in ResolverResponses :
         /\ calls' = Append(calls, Request("RESOLVE", <<domain, "80">>, "", NoRecord))
         /\ IF resp.kind # "ok"
            THEN /\ Fail("dns_ip",
                         <<"Getting IPv4 Address Associated With Domain", "io::Error">>)
                 /\ UNCHANGED dns_ip
            ELSE IF resp.addrs = <<>>
            THEN /\ Fail("dns_ip",
                         <<"Getting IPv4 Address Associated With Domain",
                           "Getting IPv4 Address For Domain">>)
                 /\ UNCHANGED dns_ip
            ELSE /\ dns_ip' = Head(resp.addrs)
                 /\ Proceed("dns_ip", "compare")
    /\ UNCHANGED <<argv, env_api_key, domain, current_ip, api_key, zone_id,
                   dns_record, echo, zones, records, patch_response, remote,
                   stdout>>

\* main.rs:49-54
Compare ==
    /\ pc = "compare"
    /\ IF AddressesMatch(current_ip, dns_ip)
       THEN /\ stdout' = Append(stdout, MsgMatch)
            /\ Finish("compare")
       ELSE /\ stdout' = Append(stdout, MsgNoMatch)
            /\ Proceed("compare", "api_key")
    /\ UNCHANGED <<argv, env_api_key, domain, current_ip, dns_ip, api_key,
                   zone_id, dns_record, echo, zones, records, patch_response,
                   remote, calls>>

\* env::var("CLOUDFLARE_API_KEY")?  (main.rs:56)
ReadApiKey ==
    /\ pc = "api_key"
    /\ IF EnvVarIsOk(env_api_key)
       THEN /\ api_key' = env_api_key
            /\ Proceed("api_key", "get_zones")
       ELSE /\ Fail("api_key", <<"env::VarError">>)
            /\ UNCHANGED api_key
    /\ UNCHANGED <<argv, env_api_key, domain, current_ip, dns_ip, zone_id,
                   dns_record, echo, zones, records, patch_response, remote,
                   calls, stdout>>

\* main.rs:58-62 with get_zones (main.rs:105-114)
GetZones ==
    /\ pc = "get_zones"
    /\ \E resp \in ListResponses(ZoneValues, MaxZones) :
         LET zone == FindZone(resp.result, domain)
         IN  /\ calls' = Append(calls, Request("GET", <<"zones">>, api_key, NoRecord))
             /\ zones' = resp
             /\ IF resp.kind # "ok"
                THEN /\ Fail("get_zones", <<"ureq::Error">>)
                     /\ UNCHANGED zone_id
                ELSE IF zone = NoZone
                THEN /\ Fail("get_zones", <<"Getting Zone for Domain">>)
                     /\ UNCHANGED zone_id
                ELSE /\ zone_id' = zone.id
                     /\ Proceed("get_zones", "get_dns_records")
    /\ UNCHANGED <<argv, env_api_key, domain, current_ip, dns_ip, api_key,
                   dns_record, echo, records, patch_response, remote, stdout>>

\* main.rs:64-68 with get_dns_records (main.rs:119-128)
GetDnsRecords ==
    /\ pc = "get_dns_records"
    /\ \E resp \in ListResponses(RecordValues, MaxRecords) :
         LET rec == FindRecord(resp.result, domain)
         IN  /\ calls' = Append(calls,
                    Request("GET", <<"zones", zone_id, "dns_records">>, api_key,
                            NoRecord))
             /\ records' = resp
             /\ zones' = NoResponse
             /\ IF resp.kind # "ok"
                THEN /\ Fail("get_dns_records", <<"ureq::Error">>)
                     /\ UNCHANGED dns_record
                ELSE IF rec = NoRecord
                THEN /\ Fail("get_dns_records", <<"Getting A Record">>)
                     /\ UNCHANGED dns_record
                ELSE /\ dns_record' = WithContent(rec, current_ip)
                     /\ Proceed("get_dns_records", "patch")
    /\ UNCHANGED <<argv, env_api_key, domain, current_ip, dns_ip, api_key,
                   zone_id, echo, patch_response, remote, stdout>>

\* main.rs:70-77 with patch_dns_record (main.rs:135-150)
PatchDnsRecord ==
    /\ pc = "patch"
    /\ \E out \in PatchOutcomes :
         LET req == Request("PATCH", PatchUrl(dns_record), api_key,
                            dns_record)
         IN  /\ calls' = Append(calls, req)
             /\ patch_response' = out.kind
             /\ remote' = IF out.applied THEN Append(remote, req) ELSE remote
             /\ IF out.kind \notin {"success_true", "success_false"}
                THEN /\ Fail("patch", <<"Patching DNS Record", "ureq::Error">>)
                     /\ UNCHANGED stdout
                ELSE /\ stdout' = IF ShouldReport(out.kind)
                                  THEN Append(stdout,
                                           MsgUpdated(IpToString(dns_ip),
                                                      IpToString(current_ip)))
                                  ELSE stdout
                     /\ Finish("patch")
    /\ UNCHANGED <<argv, env_api_key, domain, current_ip, dns_ip, api_key,
                   zone_id, dns_record, echo, zones, records>>

Next ==
    \/ ParseArgs
    \/ PublicIp
    \/ DnsIp
    \/ Compare
    \/ ReadApiKey
    \/ GetZones
    \/ GetDnsRecords
    \/ PatchDnsRecord

Spec == Init /\ [][Next]_vars

(***************************************************************************)
(* Vocabulary of the properties                                            *)
(***************************************************************************)
PatchCalls == {i \in DOMAIN calls : calls[i].method = "PATCH"}

\* requests to the DNS provider's API (zones GET, records GET, PATCH)
ProviderCalls == {i \in DOMAIN calls : calls[i].url[1] = "zones"}

StepOk(s) == \E i \in DOMAIN steps : steps[i] = <<s, TRUE>>
StepRun(s) == \E i \in DOMAIN steps : steps[i][1] = s
LastStep == IF steps = <<>> THEN <<"none", TRUE>> ELSE steps[Len(steps)]

Min(S) == CHOOSE m \in S : \A n \in S : m <= n

BothResolved == StepOk("public_ip") /\ StepOk("dns_ip")

Reported ==
    \E i \in DOMAIN stdout : stdout[i][1] = "Updated DNS Record from"

\* indices of the zones / records of the provider's answer that the lookups
\* are specified to accept
ZoneMatches == {i \in DOMAIN zones.result : zones.result[i].name = domain}
RecordMatches ==
    {i \in DOMAIN records.result :
        records.result[i].type = "A" /\ records.result[i].name = domain}
Fetched == records.result[Min(RecordMatches)]

\* the steps that call out, and the context string the specification gives each
NetSteps == <<"public_ip", "dns_ip", "get_zones", "get_dns_records", "patch">>
StepContext(s) ==
    CASE s = "public_ip"       -> "Getting current public IPv4 Address"
      [] s = "dns_ip"          -> "Getting IPv4 Address Associated With Domain"
      [] s = "get_zones"       -> "Getting Zone for Domain"
      [] s = "get_dns_records" -> "Getting A Record"
      [] s = "patch"           -> "Patching DNS Record"

(***************************************************************************)
(* C1: a run issues at most one PATCH, and only when the current address   *)
(* and the domain's address differ; when they are equal the run makes no   *)
(* provider API call at all, prints the match message and ends Ok (exit 0).*)
(***************************************************************************)
C1_PatchOnlyOnMismatch ==
    /\ Cardinality(PatchCalls) <= 1
    /\ PatchCalls # {} => BothResolved /\ current_ip # dns_ip
    /\ (BothResolved /\ current_ip = dns_ip) => ProviderCalls = {}
    /\ (BothResolved /\ current_ip = dns_ip /\ pc = "done") =>
          /\ stdout = <<MsgMatch>>
          /\ result = "Ok"
          /\ ExitCode(result) = 0

C1_Witness ==
    /\ pc = "done"
    /\ BothResolved
    /\ current_ip = dns_ip
    /\ stdout = <<MsgMatch>>
    /\ Len(calls) = 2

(***************************************************************************)
(* C2 as stated: when the addresses differ and the credential, the zone    *)
(* lookup and the record lookup succeed, exactly one PATCH is issued, its  *)
(* URL carries the zone id found by the zone lookup and the id of the      *)
(* record found by the record lookup, and its body is the fetched record   *)
(* with only `content` replaced by the text of the current address.        *)
(***************************************************************************)
C2_PatchTargetsLookedUpZone ==
    (pc = "done" /\ StepOk("get_dns_records")) =>
        /\ Cardinality(PatchCalls) = 1
        /\ \A i \in PatchCalls :
              /\ calls[i].url = <<"zones", zone_id, "dns_records", Fetched.id>>
              /\ calls[i].body = [Fetched EXCEPT !.content = IpToString(current_ip)]

(***************************************************************************)
(* C2 amended: as above, but the zone id in the URL is the `zone_id` field *)
(* of the fetched record (which is the looked-up zone id whenever the      *)
(* provider's record carries it).  For an IPv4 address the new content is  *)
(* the echo service's body, character for character.                       *)
(***************************************************************************)
C2_PatchTargetsFetchedRecord ==
    (pc = "done" /\ StepOk("get_dns_records")) =>
        /\ Cardinality(PatchCalls) = 1
        /\ \A i \in PatchCalls :
              /\ calls[i].url =
                    <<"zones", Fetched.zone_id, "dns_records", Fetched.id>>
              /\ (Fetched.zone_id = zone_id =>
                    calls[i].url = <<"zones", zone_id, "dns_records", Fetched.id>>)
              /\ calls[i].body = [Fetched EXCEPT !.content = IpToString(current_ip)]
              /\ \A f \in {"id", "zone_id", "name", "type", "ttl"} :
                    calls[i].body[f] = Fetched[f]
              /\ (current_ip.fam = "V4" => calls[i].body.content = echo.body)
              /\ calls[i].auth = api_key

C2_Witness ==
    /\ pc = "done"
    /\ StepOk("get_dns_records")
    /\ PatchCalls # {}
    /\ Fetched.zone_id # zone_id
    /\ Fetched.ttl # 300
    /\ current_ip.fam = "V4"

(***************************************************************************)
(* C3 as stated: with CLOUDFLARE_API_KEY unset the run aborts before any   *)
(* network call, the address-echo request and the name resolution included.*)
(***************************************************************************)
C3_NoCallWithoutCredential ==
    env_api_key = "" => calls = <<>>

(***************************************************************************)
(* C3 amended: with CLOUDFLARE_API_KEY unset no provider API call is ever  *)
(* made; the credential is read only after the echo request, the name      *)
(* resolution and a comparison that found the addresses different, and the *)
(* run then ends there with an error.  When the addresses are equal the    *)
(* run ends Ok without reading the credential.                             *)
(***************************************************************************)
C3_NoProviderCallWithoutCredential ==
    env_api_key = "" =>
        /\ ProviderCalls = {}
        /\ StepRun("api_key") =>
              /\ pc = "done"
              /\ LastStep = <<"api_key", FALSE>>
              /\ result = "Err"
              /\ ExitCode(result) # 0
              /\ Len(calls) = 2
              /\ current_ip # dns_ip
        /\ (pc = "done" /\ StepOk("compare") /\ current_ip # dns_ip) =>
              StepRun("api_key")
        /\ (pc = "done" /\ BothResolved /\ current_ip = dns_ip) =>
              result = "Ok" /\ ~StepRun("api_key")

C3_Witness ==
    /\ env_api_key = ""
    /\ LastStep = <<"api_key", FALSE>>
    /\ result = "Err"
    /\ Len(calls) = 2

(***************************************************************************)
(* C4 as stated: at the end of every run either the remote record has been *)
(* patched, the provider confirmed success and the run reported the        *)
(* update, or the remote record is unchanged.                              *)
(***************************************************************************)
C4_NoPartialSuccess ==
    pc = "done" =>
        \/ remote # <<>> /\ patch_response = "success_true" /\ Reported
        \/ remote = <<>>

(***************************************************************************)
(* C4 amended: the remote record changes at most once and only through the *)
(* run's PATCH request; a confirmed success is always reported and a       *)
(* report is only made for a confirmed, applied patch; a run that ends in  *)
(* an error with the remote record changed ended at the PATCH step, with   *)
(* the answer lost or undecodable after the request was sent.              *)
(***************************************************************************)
C4_ChangeOnlyThroughPatch ==
    /\ Len(remote) <= 1
    /\ remote # <<>> =>
          /\ PatchCalls # {}
          /\ \A i \in PatchCalls : remote = <<calls[i]>>
    /\ patch_response = "success_true" =>
          remote # <<>> /\ Reported /\ result = "Ok"
    /\ Reported => remote # <<>> /\ patch_response = "success_true"
    /\ (pc = "done" /\ result # "Ok" /\ remote # <<>>) =>
          /\ LastStep = <<"patch", FALSE>>
          /\ patch_response \in {"transport", "malformed"}
    /\ (pc = "done" /\ ~StepRun("patch")) => remote = <<>>

C4_Witness ==
    /\ pc = "done"
    /\ result = "Err"
    /\ remote # <<>>
    /\ patch_response = "malformed"

(***************************************************************************)
(* C5: an echo body that is not a valid IPv4 address makes the run end     *)
(* with an error value carrying the context of the public-address step,    *)
(* and no address is produced from it.                                     *)
(***************************************************************************)
C5_BadBodyIsParseError ==
    (echo.kind = "ok" /\ ParseV4(echo.body) = NoIp) =>
        /\ pc = "done"
        /\ result = "Err"
        /\ err # <<>>
        /\ err[1] = StepContext("public_ip")
        /\ current_ip = NoIp

(***************************************************************************)
(* C6: the zone lookup takes the first zone, in the provider's order,      *)
(* whose name equals the domain exactly; with no such zone the run ends    *)
(* with the "Getting Zone for Domain" error and the zones GET is the last  *)
(* call it made.                                                           *)
(***************************************************************************)
C6_FirstExactZone ==
    zones.kind = "ok" =>
        IF ZoneMatches = {}
        THEN /\ pc = "done"
             /\ result = "Err"
             /\ ExitCode(result) # 0
             /\ err = <<"Getting Zone for Domain">>
             /\ LastStep = <<"get_zones", FALSE>>
             /\ calls[Len(calls)].url = <<"zones">>
             /\ Cardinality(ProviderCalls) = 1
             /\ PatchCalls = {}
        ELSE /\ zone_id = zones.result[Min(ZoneMatches)].id
             /\ LastStep = <<"get_zones", TRUE>>
             /\ pc = "get_dns_records"

C6_Witness ==
    /\ zones.kind = "ok"
    /\ Cardinality(ZoneMatches) = 2
    /\ zones.result[1].id # zones.result[2].id
    /\ zone_id = zones.result[1].id

(***************************************************************************)
(* C7: the record lookup takes the first record, in the provider's order,  *)
(* with type "A" and name equal to the domain; with no such record the run *)
(* ends with the "Getting A Record" error and no PATCH is issued.          *)
(***************************************************************************)
C7_FirstARecord ==
    records.kind = "ok" =>
        IF RecordMatches = {}
        THEN /\ pc = "done"
             /\ result = "Err"
             /\ ExitCode(result) # 0
             /\ err = <<"Getting A Record">>
             /\ LastStep = <<"get_dns_records", FALSE>>
             /\ PatchCalls = {}
             /\ remote = <<>>
        ELSE /\ dns_record.id = Fetched.id
             /\ dns_record.zone_id = Fetched.zone_id
             /\ dns_record.type = "A"
             /\ dns_record.name = domain
             /\ StepOk("get_dns_records")

C7_Witness ==
    /\ records.kind = "ok"
    /\ RecordMatches = {}
    /\ \E i \in DOMAIN records.result :
          records.result[i].type = "CNAME" /\ records.result[i].name = domain
    /\ \E i \in DOMAIN records.result :
          records.result[i].type = "A" /\ records.result[i].name # domain
    /\ pc = "done"

(***************************************************************************)
(* C8: the statements run in the order public-address lookup, name         *)
(* resolution, comparison, credential read, zones GET, records GET, PATCH, *)
(* each at most once; only the last statement executed can have failed,    *)
(* and a failed statement ends the run with a non-zero exit code; the      *)
(* network calls follow the same order, one per calling statement.         *)
(***************************************************************************)
C8_FixedOrderFailFast ==
    /\ Len(steps) <= Len(StepOrder)
    /\ \A i \in DOMAIN steps : steps[i][1] = StepOrder[i]
    /\ \A i \in DOMAIN steps : i < Len(steps) => steps[i][2]
    /\ ~LastStep[2] =>
          /\ pc = "done"
          /\ result \in {"Err", "panic"}
          /\ ExitCode(result) # 0
    /\ Len(calls) = Cardinality({i \in DOMAIN NetSteps : StepRun(NetSteps[i])})
    /\ \A i \in DOMAIN calls :
          CASE i = 1 -> calls[i].url = <<"https://api.ipify.org">>
            [] i = 2 -> calls[i].method = "RESOLVE"
            [] i = 3 -> calls[i].method = "GET" /\ calls[i].url = <<"zones">>
            [] i = 4 -> calls[i].method = "GET" /\ Len(calls[i].url) = 3
            [] i = 5 -> calls[i].method = "PATCH"

C8_Witness ==
    /\ LastStep = <<"get_zones", FALSE>>
    /\ pc = "done"
    /\ Len(calls) = 3
    /\ result = "Err"

(***************************************************************************)
(* C9: every failure of an external call reaches the top level wrapped in  *)
(* the context string of its step: the error chain main() returns starts   *)
(* with that string.                                                       *)
(***************************************************************************)
C9_FailureCarriesStepContext ==
    (result = "Err" /\ \E i \in DOMAIN NetSteps : NetSteps[i] = LastStep[1]) =>
        /\ err # <<>>
        /\ err[1] = StepContext(LastStep[1])

(***************************************************************************)
(* C10: "Updated DNS Record from OLD to NEW" is printed exactly when a     *)
(* PATCH was made and its envelope says success == true, with OLD the      *)
(* domain's address and NEW the current address; on success == false       *)
(* nothing is printed after the mismatch notice.                           *)
(***************************************************************************)
C10_ReportIffConfirmed ==
    /\ Reported <=> (PatchCalls # {} /\ patch_response = "success_true")
    /\ Reported =>
          stdout = <<MsgNoMatch,
                     MsgUpdated(IpToString(dns_ip), IpToString(current_ip))>>
    /\ patch_response = "success_false" =>
          /\ ~Reported
          /\ stdout = <<MsgNoMatch>>
          /\ pc = "done"

C10_Witness ==
    /\ patch_response = "success_false"
    /\ PatchCalls # {}
    /\ ~Reported
    /\ pc = "done"

====
